---- MODULE Spec2Model ----
(***************************************************************************)
(* Model of the financial_calculations repository: the bond cluster        *)
(* (bond_price, bond_duration, bond_convexity, adjusted_bond_price) and    *)
(* the asset metrics (sharpe_ratio, beta, asset_drawdown).                 *)
(*                                                                         *)
(* Every function of the repository is a pure function of its arguments.   *)
(* A behaviour of the model is one call: Init draws the function and its   *)
(* arguments, the function's action applies it and stores what the call    *)
(* produced (a value, or the exception Python raises).                     *)
(*                                                                         *)
(* Python's float arithmetic is modelled by exact rational arithmetic:     *)
(* a rational is a sign and two naturals, and a natural is a sequence of   *)
(* base-Limb digits (least significant first), so that no intermediate     *)
(* product is cut by the width of the model checker's integers.            *)
(***************************************************************************)
EXTENDS Integers, Sequences, FiniteSets, TLC

VARIABLES fn, args, pc, result, locals, prev

vars == <<fn, args, pc, result, locals, prev>>

(***************************************************************************)
(* Naturals of arbitrary size.                                             *)
(***************************************************************************)
Limb == 1000

RECURSIVE BNTrim(_)
BNTrim(a) ==
    IF Len(a) > 0 /\ a[Len(a)] = 0 THEN BNTrim(SubSeq(a, 1, Len(a) - 1)) ELSE a

RECURSIVE BNFromNat(_)
BNFromNat(n) ==
    IF n = 0 THEN <<>> ELSE <<n % Limb>> \o BNFromNat(n \div Limb)

RECURSIVE BNToNat(_)
BNToNat(a) ==
    IF a = <<>> THEN 0 ELSE a[1] + Limb * BNToNat(Tail(a))

RECURSIVE BNAddAt(_, _, _, _)
BNAddAt(a, b, i, c) ==
    IF i > Len(a) /\ i > Len(b)
    THEN IF c = 0 THEN <<>> ELSE <<c>>
    ELSE LET x == IF i > Len(a) THEN 0 ELSE a[i]
             y == IF i > Len(b) THEN 0 ELSE b[i]
             s == x + y + c
         IN  <<s % Limb>> \o BNAddAt(a, b, i + 1, s \div Limb)

BNAdd(a, b) == BNAddAt(a, b, 1, 0)

\* a - b for a >= b
RECURSIVE BNSubAt(_, _, _, _)
BNSubAt(a, b, i, c) ==
    IF i > Len(a)
    THEN <<>>
    ELSE LET y == IF i > Len(b) THEN 0 ELSE b[i]
             s == a[i] - y - c
         IN  IF s < 0
             THEN <<s + Limb>> \o BNSubAt(a, b, i + 1, 1)
             ELSE <<s>> \o BNSubAt(a, b, i + 1, 0)

BNSub(a, b) == BNTrim(BNSubAt(a, b, 1, 0))

\* the digits of the columns cols (each below 2^31 - Limb), carried
RECURSIVE BNCarryAt(_, _, _)
BNCarryAt(cols, i, c) ==
    IF i > Len(cols)
    THEN BNFromNat(c)
    ELSE LET s == cols[i] + c
         IN  <<s % Limb>> \o BNCarryAt(cols, i + 1, s \div Limb)

\* the sum of a[i] * b[k + 1 - i] for i in lo .. hi
RECURSIVE BNColumn(_, _, _, _, _)
BNColumn(a, b, k, lo, hi) ==
    IF lo > hi THEN 0
    ELSE a[lo] * b[k + 1 - lo] + BNColumn(a, b, k, lo + 1, hi)

\* (a product of at most three digits is below 2^31 and is taken directly)
BNMul(a, b) ==
    IF a = <<>> \/ b = <<>> THEN <<>>
    ELSE IF Len(a) + Len(b) <= 3 THEN BNFromNat(BNToNat(a) * BNToNat(b))
    ELSE LET Lo(k) == IF k > Len(b) THEN k + 1 - Len(b) ELSE 1
             Hi(k) == IF k > Len(a) THEN Len(a) ELSE k
         IN  BNTrim(BNCarryAt([k \in 1 .. Len(a) + Len(b) - 1 |->
                                  BNColumn(a, b, k, Lo(k), Hi(k))], 1, 0))

\* a * d for a digit d
BNMulDigit(a, d) ==
    IF d = 0 THEN <<>> ELSE BNCarryAt([i \in 1 .. Len(a) |-> a[i] * d], 1, 0)

\* -1, 0, 1 as a < b, a = b, a > b
RECURSIVE BNCmpAt(_, _, _)
BNCmpAt(a, b, i) ==
    IF i = 0 THEN 0
    ELSE IF a[i] < b[i] THEN -1
    ELSE IF a[i] > b[i] THEN 1
    ELSE BNCmpAt(a, b, i - 1)

BNCmp(a, b) ==
    IF Len(a) < Len(b) THEN -1
    ELSE IF Len(a) > Len(b) THEN 1
    ELSE BNCmpAt(a, b, Len(a))

\* the largest q in lo .. hi with b * q <= r, given b * lo <= r (bisection)
RECURSIVE BNQuotDigit(_, _, _, _)
BNQuotDigit(r, b, lo, hi) ==
    IF lo = hi THEN lo
    ELSE LET mid == (lo + hi + 1) \div 2
         IN  IF BNCmp(BNMulDigit(b, mid), r) <= 0
             THEN BNQuotDigit(r, b, mid, hi)
             ELSE BNQuotDigit(r, b, lo, mid - 1)

\* the two (three, when r is a digit longer than b) leading digits of r, for a
\* divisor b of at least two digits and b <= r < Limb * b
BNLeading(r, b) ==
    IF Len(r) = Len(b)
    THEN r[Len(r)] * Limb + r[Len(r) - 1]
    ELSE (r[Len(r)] * Limb + r[Len(r) - 1]) * Limb + r[Len(r) - 2]

\* the quotient digit of r by b, given the leading digits R of r and b2 of b: they
\* bound the digit from both sides, and bisection finds it between the bounds
BNQuotBetween(r, b, R, b2) ==
    BNQuotDigit(r, b, R \div (b2 + 1),
                IF R \div b2 > Limb - 1 THEN Limb - 1 ELSE R \div b2)

\* the quotient digit of r by b, for b <= r < Limb * b
BNQuotOf(r, b) ==
    IF Len(b) = 1
    THEN BNToNat(r) \div b[1]
    ELSE BNQuotBetween(r, b, BNLeading(r, b), b[Len(b)] * Limb + b[Len(b) - 1])

\* One step of long division. st = <<a, b, i, q, r>>: the digits of a above i are
\* divided, with quotient q and remainder r; the step takes digit a[i] in, which
\* makes the remainder r, and finds the quotient digit qd.
BNDivPut(st, r, qd) ==
    <<st[1], st[2], st[3] - 1, BNTrim(<<qd>> \o st[4]),
      IF qd = 0 THEN r ELSE BNSub(r, BNMulDigit(st[2], qd))>>

BNDivTake(st, r) ==
    BNDivPut(st, r, IF BNCmp(r, st[2]) < 0 THEN 0 ELSE BNQuotOf(r, st[2]))

BNDivStep(st) == BNDivTake(st, BNTrim(<<st[1][st[3]]>> \o st[5]))

\* at most k steps of long division
RECURSIVE BNDivIter(_, _)
BNDivIter(st, k) ==
    IF k = 0 \/ st[3] = 0 THEN st ELSE BNDivIter(BNDivStep(st), k - 1)

\* long division: eight digits of a to a level of the recursion
RECURSIVE BNDivLoop(_)
BNDivLoop(st) ==
    IF st[3] = 0 THEN st ELSE BNDivLoop(BNDivIter(st, 8))

BNQuotRem(st) == <<st[4], st[5]>>

\* <<quotient, remainder>> of a by b, b > 0
\* (numbers of at most three digits are below 2^31 and are divided directly)
BNDivMod(a, b) ==
    IF BNCmp(a, b) < 0 THEN <<<<>>, a>>
    ELSE IF Len(a) <= 3
    THEN <<BNFromNat(BNToNat(a) \div BNToNat(b)), BNFromNat(BNToNat(a) % BNToNat(b))>>
    ELSE BNQuotRem(BNDivLoop(<<a, b, Len(a), <<>>, <<>>>>))

\* Euclid's algorithm on two naturals below 2^31
RECURSIVE NatGcd(_, _)
NatGcd(a, b) == IF b = 0 THEN a ELSE NatGcd(b, a % b)

\* at most k steps of Euclid's algorithm on the pair <<a, b>>
RECURSIVE BNGcdIter(_, _)
BNGcdIter(p, k) ==
    IF k = 0 \/ p[2] = <<>> THEN p
    ELSE BNGcdIter(<<p[2], BNDivMod(p[1], p[2])[2]>>, k - 1)

\* Euclid's algorithm: eight steps to a level of the recursion, and directly once
\* both numbers have at most three digits
RECURSIVE BNGcdLoop(_)
BNGcdLoop(p) ==
    IF p[2] = <<>> THEN p[1]
    ELSE IF Len(p[1]) <= 3 /\ Len(p[2]) <= 3
    THEN BNFromNat(NatGcd(BNToNat(p[1]), BNToNat(p[2])))
    ELSE BNGcdLoop(BNGcdIter(p, 8))

\* the greatest common divisor
BNGcd(a, b) == BNGcdLoop(<<a, b>>)

\* a / g for a divisor g of a
BNQuot(a, g) == IF g = <<1>> THEN a ELSE BNDivMod(a, g)[1]

(***************************************************************************)
(* Rationals in lowest terms:                                              *)
(* [s |-> sign, n |-> |numerator|, d |-> denominator].                     *)
(* Python's float operators +, -, *, / and ** are RatAdd, RatSub, RatMul,  *)
(* RatDiv and RatPow: exact, and the result again in lowest terms, so that *)
(* equal values are equal records.                                         *)
(***************************************************************************)
RatZero == [s |-> 0, n |-> <<>>, d |-> <<1>>]

RatOne == [s |-> 1, n |-> <<1>>, d |-> <<1>>]

\* x with the common divisor g taken out of x.n and x.d
RatReduce(x, g) == [s |-> x.s, n |-> BNQuot(x.n, g), d |-> BNQuot(x.d, g)]

RatNorm(x) ==
    IF x.s = 0 \/ x.n = <<>> THEN RatZero ELSE RatReduce(x, BNGcd(x.n, x.d))

Abs(i) == IF i < 0 THEN -i ELSE i

Sgn(i) == IF i < 0 THEN -1 ELSE IF i > 0 THEN 1 ELSE 0

\* the rational p/q of two integers, q # 0
Rat(p, q) ==
    RatNorm([s |-> Sgn(p) * Sgn(q), n |-> BNFromNat(Abs(p)), d |-> BNFromNat(Abs(q))])

RatInt(i) == [s |-> Sgn(i), n |-> BNFromNat(Abs(i)), d |-> <<1>>]

RatNeg(x) == [s |-> -x.s, n |-> x.n, d |-> x.d]

\* s * |a - b| with the sign of the larger
RatSigned(sa, a, sb, b, d) ==
    LET c == BNCmp(a, b)
    IN  IF sa = sb THEN [s |-> sa, n |-> BNAdd(a, b), d |-> d]
        ELSE IF c = 0 THEN RatZero
        ELSE IF c > 0 THEN [s |-> sa, n |-> BNSub(a, b), d |-> d]
        ELSE [s |-> sb, n |-> BNSub(b, a), d |-> d]

\* t = [s, n, d] is the sum over the common denominator t.d = g of the numerators
\* x.n * yd and y.n * xd; g2 is what t.n and g still share
RatAddReduce(xd, yd, t, g2) ==
    [s |-> t.s, n |-> BNQuot(t.n, g2), d |-> BNMul(xd, BNQuot(yd, g2))]

RatAddLowest(xd, yd, t) ==
    IF t.s = 0 THEN RatZero
    ELSE RatAddReduce(xd, yd, t, IF t.d = <<1>> THEN t.d ELSE BNGcd(t.n, t.d))

\* g = gcd(x.d, y.d), xd = x.d / g, yd = y.d / g
RatAddTerms(x, y, g, xd, yd) ==
    RatAddLowest(xd, y.d, RatSigned(x.s, BNMul(x.n, yd), y.s, BNMul(y.n, xd), g))

RatAddOver(x, y, g) == RatAddTerms(x, y, g, BNQuot(x.d, g), BNQuot(y.d, g))

RatAdd(x, y) ==
    IF x.s = 0 THEN y
    ELSE IF y.s = 0 THEN x
    ELSE RatAddOver(x, y, BNGcd(x.d, y.d))

RatSub(x, y) == RatAdd(x, RatNeg(y))

\* g1 = gcd(x.n, y.d), g2 = gcd(y.n, x.d)
RatMulReduce(x, y, g1, g2) ==
    [s |-> x.s * y.s,
     n |-> BNMul(BNQuot(x.n, g1), BNQuot(y.n, g2)),
     d |-> BNMul(BNQuot(x.d, g2), BNQuot(y.d, g1))]

RatMul(x, y) ==
    IF x.s = 0 \/ y.s = 0
    THEN RatZero
    ELSE RatMulReduce(x, y, BNGcd(x.n, y.d), BNGcd(y.n, x.d))

\* 1 / y, y # 0
RatInv(y) == [s |-> y.s, n |-> y.d, d |-> y.n]

\* x / y, y # 0
RatDiv(x, y) == RatMul(x, RatInv(y))

\* x ** k for an integer k (x # 0 when k < 0); x ** 0 = 1 for every x
RECURSIVE RatPow(_, _)
RatPow(x, k) ==
    IF k = 0 THEN RatOne
    ELSE IF k < 0 THEN RatInv(RatPow(x, -k))
    ELSE LET p == RatPow(x, k - 1)
         IN  [s |-> x.s * p.s, n |-> BNMul(x.n, p.n), d |-> BNMul(x.d, p.d)]

\* -1, 0, 1 as x < y, x = y, x > y
RatCmp(x, y) ==
    IF x.s # y.s THEN (IF x.s < y.s THEN -1 ELSE 1)
    ELSE x.s * BNCmp(BNMul(x.n, y.d), BNMul(y.n, x.d))

RatLt(x, y) == RatCmp(x, y) < 0

RatLe(x, y) == RatCmp(x, y) <= 0

RatIsZero(x) == x.s = 0

(***************************************************************************)
(* What a call produces: a value, or the exception Python raises.          *)
(***************************************************************************)
None == [kind |-> "None"]

Value(v) == [kind |-> "value", val |-> v]

Raise(e) == [kind |-> e]

IsValue(r) == r.kind = "value"

\* a maturity as Python holds it: an int, or a float (any real)
IntMaturity(m) == [kind |-> "int", num |-> m, den |-> 1]

FloatMaturity(p, q) == [kind |-> "float", num |-> p, den |-> q]

(***************************************************************************)
(* bond_calculations.py                                                    *)
(***************************************************************************)

\* the loop of bond_price, for t in range(1, total_payments + 1);
\* st = <<t, present_coupon_value>> before the pass for t
RECURSIVE present_coupon_loop(_, _, _, _)
present_coupon_loop(coupon_payment, discount_rate, total_payments, st) ==
    IF st[1] > total_payments THEN st[2]
    ELSE present_coupon_loop(coupon_payment, discount_rate, total_payments,
             <<st[1] + 1,
               RatAdd(st[2], RatDiv(coupon_payment,
                                    RatPow(RatAdd(RatOne, discount_rate), st[1])))>>)

\* a faulty variant of the loop: range(1, total_payments), the last coupon left out
present_coupon_value_one_short(coupon_payment, discount_rate, total_payments) ==
    present_coupon_loop(coupon_payment, discount_rate, total_payments - 1, <<1, RatZero>>)

present_coupon_value(coupon_payment, discount_rate, total_payments) ==
    present_coupon_loop(coupon_payment, discount_rate, total_payments, <<1, RatZero>>)

\* a faulty variant of bond_price: the nominal is added without being discounted
bond_price_nominal_undiscounted(nominal, coupon, ytm, maturity, freq) ==
    IF freq = 0 THEN Raise("ZeroDivisionError")
    ELSE LET total_payments == maturity.num * freq
             coupon_payment == RatDiv(RatMul(nominal, coupon), RatInt(freq))
             discount_rate == RatDiv(ytm, RatInt(freq))
             base == RatAdd(RatOne, discount_rate)
         IN  IF maturity.kind = "float" THEN Raise("TypeError")
             ELSE IF RatIsZero(base) /\ total_payments >= 1
                  THEN Raise("ZeroDivisionError")
             ELSE Value(RatAdd(
                      present_coupon_loop(coupon_payment, discount_rate, total_payments,
                                          <<1, RatZero>>),
                      nominal))

\* lines 26-34, given the locals of lines 20-24
bond_price_of_payments(nominal, total_payments, coupon_payment, discount_rate) ==
    IF RatIsZero(RatAdd(RatOne, discount_rate)) /\ total_payments # 0
    THEN Raise("ZeroDivisionError")
    ELSE Value(RatAdd(
             present_coupon_value(coupon_payment, discount_rate, total_payments),
             RatDiv(nominal, RatPow(RatAdd(RatOne, discount_rate), total_payments))))

bond_price(nominal, coupon, ytm, maturity, freq) ==
    IF freq = 0 THEN Raise("ZeroDivisionError")
    ELSE IF maturity.kind = "float" THEN Raise("TypeError")
    ELSE bond_price_of_payments(nominal, maturity.num * freq,
             RatDiv(RatMul(nominal, coupon), RatInt(freq)),
             RatDiv(ytm, RatInt(freq)))

\* bond_price called with freq=2: what bond_duration, bond_convexity and
\* adjusted_bond_price pass, whatever freq they were given
bond_price_freq2(nominal, coupon, ytm, maturity) ==
    bond_price(nominal, coupon, ytm, maturity, 2)

\* what pass t of the loop of bond_duration adds to the numerator
duration_term(nominal, coupon_payment, period_yield, total_periods, t) ==
    IF t # total_periods
    THEN RatDiv(RatMul(RatInt(t), coupon_payment),
                RatPow(RatAdd(RatOne, period_yield), t))
    ELSE RatDiv(RatMul(RatInt(total_periods), RatAdd(nominal, coupon_payment)),
                RatPow(RatAdd(RatOne, period_yield), total_periods))

\* the loop of bond_duration, for t in range(1, total_periods + 1);
\* st = <<t, numerator>> before the pass for t
RECURSIVE duration_loop(_, _, _, _, _)
duration_loop(nominal, coupon_payment, period_yield, total_periods, st) ==
    IF st[1] > total_periods THEN st[2]
    ELSE duration_loop(nominal, coupon_payment, period_yield, total_periods,
             <<st[1] + 1,
               RatAdd(st[2], duration_term(nominal, coupon_payment, period_yield,
                                           total_periods, st[1]))>>)

\* lines 69-71, given duration and 1 + ytm / freq
duration_pair(duration, base) == Value(<<duration, RatDiv(duration, base)>>)

\* lines 59-71, given the locals of lines 53-57
duration_of_payments(nominal, price, freq, coupon_payment, total_periods, period_yield) ==
    IF RatIsZero(RatAdd(RatOne, period_yield)) \/ RatIsZero(price)
    THEN Raise("ZeroDivisionError")
    ELSE duration_pair(
             RatDiv(RatDiv(duration_loop(nominal, coupon_payment, period_yield,
                                         total_periods, <<1, RatZero>>),
                           price),
                    RatInt(freq)),
             RatAdd(RatOne, period_yield))

\* lines 55-71, given the price of line 53
duration_at_price(nominal, coupon, ytm, maturity, freq, price) ==
    IF ~IsValue(price) THEN price
    ELSE IF freq = 0 THEN Raise("ZeroDivisionError")
    ELSE duration_of_payments(nominal, price.val, freq,
             RatDiv(RatMul(nominal, coupon), RatInt(freq)),
             freq * maturity.num,
             RatDiv(ytm, RatInt(freq)))

\* Value(<<duration, mod_duration>>), or the exception raised
bond_duration(nominal, coupon, ytm, maturity, freq) ==
    duration_at_price(nominal, coupon, ytm, maturity, freq,
                      bond_price_freq2(nominal, coupon, ytm, maturity))

\* the bump of bond_convexity, dy = 0.01 = 1 / ConvexityBumpInv
ConvexityBumpInv == 100

\* line 99, given the three prices
convexity_of_prices(price_minus, price_plus, price) ==
    IF ~IsValue(price_minus) THEN price_minus
    ELSE IF ~IsValue(price_plus) THEN price_plus
    ELSE IF ~IsValue(price) THEN price
    ELSE IF RatIsZero(price.val) THEN Raise("ZeroDivisionError")
    ELSE Value(RatDiv(
             RatSub(RatAdd(price_plus.val, price_minus.val),
                    RatMul(RatInt(2), price.val)),
             RatMul(price.val, RatPow(Rat(1, ConvexityBumpInv), 2))))

bond_convexity(nominal, coupon, ytm, maturity, freq) ==
    convexity_of_prices(
        bond_price_freq2(nominal, coupon, RatSub(ytm, Rat(1, ConvexityBumpInv)), maturity),
        bond_price_freq2(nominal, coupon, RatAdd(ytm, Rat(1, ConvexityBumpInv)), maturity),
        bond_price_freq2(nominal, coupon, ytm, maturity))

\* floor(x) of a rational x >= 0, as an integer
RatFloor(x) == BNToNat(BNDivMod(x.n, x.d)[1])

\* a faulty variant of the length: the stop is included when the step divides stop - start
arange_len_inclusive(start, stop, step) ==
    LET q == RatDiv(RatSub(stop, start), step)
    IN  IF q.s <= 0 THEN 0 ELSE RatFloor(q) + 1

\* a faulty variant of the length: the sign of the step is ignored
arange_len_unsigned(start, stop, step) ==
    LET q == RatDiv(RatSub(stop, start), step)
    IN  IF q.s = 0 THEN 0
        ELSE IF q.d = <<1>> THEN RatFloor(q) ELSE RatFloor(q) + 1

\* the length of np.arange(start, stop, step), step # 0: ceil((stop - start) / step),
\* and 0 when that is not positive
arange_len(start, stop, step) ==
    LET q == RatDiv(RatSub(stop, start), step)
    IN  IF q.s <= 0 THEN 0
        ELSE IF q.d = <<1>> THEN RatFloor(q) ELSE RatFloor(q) + 1

\* np.arange(start, stop, step): start + i * step for i = 0 .. length - 1
arange(start, stop, step) ==
    [i \in 1 .. arange_len(start, stop, step) |->
        RatAdd(start, RatMul(RatInt(i - 1), step))]

\* one pass of the loop of adjusted_bond_price, for the yield change i
projected_price(duration, conv, price, i) ==
    LET one == RatMul(RatNeg(duration), i)
        two == RatMul(RatMul(Rat(1, 2), conv), RatPow(i, 2))
        three == RatAdd(RatAdd(one, two), RatOne)
    IN  RatMul(three, price)

\* lines 161-164: the locals of adjusted_bond_price at its return, and what it returns
projection(yield_change_range, duration, conv, price, bond_prices, return_yields) ==
    [locals |-> [yield_change_range |-> yield_change_range,
                 duration |-> duration,
                 conv |-> conv,
                 price |-> price],
     result |-> IF return_yields
                THEN Value(<<bond_prices, yield_change_range>>)
                ELSE Value(bond_prices)]

\* lines 152-164, given the locals of lines 146-150
project(yield_change_range, durations, conv, price, return_yields) ==
    IF ~IsValue(durations) THEN [locals |-> None, result |-> durations]
    ELSE IF ~IsValue(conv) THEN [locals |-> None, result |-> conv]
    ELSE IF ~IsValue(price) THEN [locals |-> None, result |-> price]
    ELSE projection(yield_change_range, durations.val[2], conv.val, price.val,
             [k \in 1 .. Len(yield_change_range) |->
                 projected_price(durations.val[2], conv.val, price.val,
                                 yield_change_range[k])],
             return_yields)

adjusted_bond_price(nominal, coupon, ytm, maturity, freq, yield_changes, return_yields) ==
    project(arange(yield_changes[1], yield_changes[2], yield_changes[3]),
            bond_duration(nominal, coupon, ytm, maturity, 2),
            bond_convexity(nominal, coupon, ytm, maturity, 2),
            bond_price_freq2(nominal, coupon, ytm, maturity),
            return_yields)

(***************************************************************************)
(* asset_calculations.py                                                   *)
(***************************************************************************)

\* the sum of the series xs; st = <<i, sum>> before element i is added
RECURSIVE SumLoop(_, _)
SumLoop(xs, st) ==
    IF st[1] > Len(xs) THEN st[2]
    ELSE SumLoop(xs, <<st[1] + 1, RatAdd(st[2], xs[st[1]])>>)

Sum(xs) == SumLoop(xs, <<1, RatZero>>)

\* xs.mean(), xs non-empty
Mean(xs) == RatDiv(Sum(xs), RatInt(Len(xs)))

\* the sum of (xs[i] - mean(xs)) * (ys[i] - mean(ys)), xs and ys of one length
CoMoment(xs, ys) ==
    LET mx == Mean(xs)
        my == Mean(ys)
    IN  Sum([i \in 1 .. Len(xs) |-> RatMul(RatSub(xs[i], mx), RatSub(ys[i], my))])

\* the variance with ddof delta degrees of freedom, Len(xs) > ddof
Var(xs, ddof) == RatDiv(CoMoment(xs, xs), RatInt(Len(xs) - ddof))

\* ddof of .std(): 0 for a numpy array, 1 for a pandas Series
StdDdof(container) == IF container = "Series" THEN 1 ELSE 0

TradingDays == 252

\* A float result that is no exact rational: NaN, an infinity, or sign * sqrt(square).
NaN == [kind |-> "nan"]

Inf(sign) == [kind |-> "inf", sign |-> sign]

SignedRoot(sign, square) == [kind |-> "value", sign |-> sign, square |-> square]

\* line 18, given the mean and the variance of excess_rets
sharpe_of_moments(mean, variance) ==
    IF RatIsZero(variance)
    THEN IF RatIsZero(mean) THEN NaN ELSE Inf(mean.s)
    ELSE SignedRoot(mean.s,
             RatDiv(RatMul(RatInt(TradingDays), RatMul(mean, mean)), variance))

\* lines 17-18, given excess_rets
sharpe_of_excess(excess_rets, ddof) ==
    IF Len(excess_rets) <= ddof THEN NaN
    ELSE sharpe_of_moments(Mean(excess_rets), Var(excess_rets, ddof))

sharpe_ratio(asset_returns, container, rfr) ==
    sharpe_of_excess([i \in 1 .. Len(asset_returns) |->
                         RatSub(asset_returns[i], RatDiv(rfr, RatInt(TradingDays)))],
                     StdDdof(container))

\* np.cov(x, y)[0][1]: normalised by N - 1
np_cov(xs, ys) == RatDiv(CoMoment(xs, ys), RatInt(Len(xs) - 1))

\* np.var(x): normalised by N
np_var(xs) == RatDiv(CoMoment(xs, xs), RatInt(Len(xs)))

\* line 34, given the covariance and np.var(index_returns)
beta_of_moments(covariance, variance) ==
    IF RatIsZero(variance)
    THEN IF RatIsZero(covariance) THEN NaN ELSE Inf(covariance.s)
    ELSE Value(RatDiv(covariance, variance))

beta(index_returns, asset_returns) ==
    IF Len(index_returns) # Len(asset_returns) THEN Raise("ValueError")
    ELSE IF Len(index_returns) < 2 THEN NaN
    ELSE beta_of_moments(np_cov(index_returns, asset_returns), np_var(index_returns))

RatMax(S) == CHOOSE x \in S : \A y \in S : RatLe(y, x)

RatMin(S) == CHOOSE x \in S : \A y \in S : RatLe(x, y)

\* a faulty variant of the window: every row up to row i (an expanding window)
rolling_rows_expanding(i, w) == 1 .. i

\* The rows that .rolling(window, min_periods=1) gives row i: the last `window`
\* rows up to row i, fewer at the start of the series.
rolling_rows(i, window) == {p \in 1 .. i : p > i - window}

rolling_max(xs, window) ==
    [i \in 1 .. Len(xs) |-> RatMax({xs[p] : p \in rolling_rows(i, window)})]

rolling_min(xs, window) ==
    [i \in 1 .. Len(xs) |-> RatMin({xs[p] : p \in rolling_rows(i, window)})]

window == 252

\* lines 59-78: the locals of asset_drawdown at its return, and what it returns
drawdowns(rolling, daily_drawdown, max_daily_drawdown, plot) ==
    [locals |-> [rolling_max |-> rolling,
                 daily_drawdown |-> daily_drawdown,
                 max_daily_drawdown |-> max_daily_drawdown],
     result |-> IF plot THEN None
                ELSE Value(<<daily_drawdown, max_daily_drawdown>>)]

\* lines 57-78, given daily_drawdown
drawdown_minima(rolling, daily_drawdown, plot) ==
    drawdowns(rolling, daily_drawdown, rolling_min(daily_drawdown, window), plot)

\* lines 56-78, given rolling_max
drawdown_from_max(data, rolling, plot) ==
    drawdown_minima(rolling,
        [i \in 1 .. Len(data) |-> RatSub(RatDiv(data[i], rolling[i]), RatOne)],
        plot)

asset_drawdown(data, plot) ==
    IF Len(data) = 0
    THEN [locals |-> None, result |-> Raise("ValueError")]
    ELSE drawdown_from_max(data, rolling_max(data, window), plot)

(***************************************************************************)
(* The inputs the calls are drawn from.                                    *)
(***************************************************************************)
MaxMaturity == 2

MaxFreq == 3

MaxLen == 3

Nominals == {RatInt(100), RatInt(1000)}

Coupons == {RatZero, Rat(6, 100), Rat(1, 10)}

\* yields that keep 1 + ytm / freq positive for every freq >= 1
ModerateYields == {Rat(-1, 2), RatZero, Rat(6, 100), Rat(1, 10)}

\* with those that make 1 + ytm / freq zero or negative for some freq
Yields == ModerateYields \cup {RatInt(-2), RatInt(-3)}

IntMaturities == {IntMaturity(m) : m \in 1 .. MaxMaturity}

Maturities ==
    IntMaturities \cup {IntMaturity(-1), IntMaturity(0),
                        FloatMaturity(1, 2), FloatMaturity(3, 2)}

\* nominal=1000, coupon=0.06, ytm=0.06, maturity=10, freq=2
ParScenario ==
    [nominal |-> RatInt(1000), coupon |-> Rat(6, 100), ytm |-> Rat(6, 100),
     maturity |-> IntMaturity(10), freq |-> 2]

PriceInputs ==
    [nominal : Nominals, coupon : Coupons, ytm : Yields,
     maturity : Maturities, freq : 0 .. MaxFreq] \cup {ParScenario}

RepriceInputs ==
    [nominal : Nominals, coupon : Coupons, ytm : Yields,
     maturity : IntMaturities, freq : 1 .. MaxFreq]

RiskInputs ==
    [nominal : Nominals, coupon : Coupons, ytm : ModerateYields,
     maturity : IntMaturities, freq : 1 .. MaxFreq]

\* the default of yield_changes: [-0.15, 0.15, 0.0001]
DefaultYieldChanges == <<Rat(-15, 100), Rat(15, 100), Rat(1, 10000)>>

YieldChanges ==
    { <<Rat(-1, 100), Rat(1, 100), Rat(1, 100)>>,
      <<RatZero, Rat(5, 200), Rat(1, 100)>>,
      <<Rat(1, 100), Rat(-1, 100), Rat(-1, 100)>>,
      <<Rat(15, 100), Rat(-15, 100), Rat(1, 10000)>>,
      <<RatZero, Rat(1, 100), Rat(-1, 100)>> }

ProjectInputs ==
    [nominal : {RatInt(1000)}, coupon : {RatZero, Rat(6, 100)},
     ytm : {RatZero, Rat(6, 100)}, maturity : IntMaturities, freq : 1 .. MaxFreq,
     yield_changes : YieldChanges, return_yields : BOOLEAN]
    \cup
    [nominal : {RatInt(1000)}, coupon : {RatZero}, ytm : {RatZero},
     maturity : {IntMaturity(1)}, freq : {2},
     yield_changes : {DefaultYieldChanges}, return_yields : {FALSE}]

\* every sequence over S of length at most n
SeqsUpTo(S, n) == UNION {[1 .. k -> S] : k \in 0 .. n}

Returns == {Rat(-1, 100), RatZero, Rat(1, 100), Rat(2, 100)}

ReturnSeries == SeqsUpTo(Returns, MaxLen)

Scale(c, xs) == [i \in 1 .. Len(xs) |-> RatMul(c, xs[i])]

Reverse(xs) == [i \in 1 .. Len(xs) |-> xs[Len(xs) + 1 - i]]

Factors == {RatInt(1), RatInt(2), RatInt(-1)}

SharpeInputs ==
    [asset_returns : ReturnSeries, container : {"ndarray", "Series"},
     rfr : {RatZero, Rat(5, 100)}]

\* the asset series an index series is paired with: multiples of the index, the
\* index reversed, and a series one observation shorter
Partners(xs) ==
    {Scale(c, xs) : c \in Factors} \cup {Reverse(xs), SubSeq(xs, 2, Len(xs))}

BetaInputs ==
    UNION { {[index_returns |-> xs, asset_returns |-> ys] : ys \in Partners(xs)} :
            xs \in ReturnSeries }

Prices == {RatInt(80), RatInt(90), RatInt(100), RatInt(120)}

\* price_series = [100, 90, 95, 80, 120]
DrawdownScenario == <<RatInt(100), RatInt(90), RatInt(95), RatInt(80), RatInt(120)>>

\* series longer than the window: a peak, or a trough, that the window leaves behind
LongSeries ==
    { [i \in 1 .. window + 3 |-> IF i = 1 THEN RatInt(120) ELSE RatInt(100)],
      [i \in 1 .. window + 3 |-> IF i = 2 THEN RatInt(80) ELSE RatInt(100)] }

DrawdownInputs ==
    [data : SeqsUpTo(Prices, MaxLen) \cup {DrawdownScenario}, plot : BOOLEAN]
    \cup [data : LongSeries, plot : {FALSE}]

(***************************************************************************)
(* The calls.                                                              *)
(***************************************************************************)
Return(r, l) ==
    /\ pc' = "done"
    /\ result' = r
    /\ locals' = l
    /\ UNCHANGED <<fn, args, prev>>

ReturnWithLocals(out) == Return(out.result, out.locals)

BondPrice ==
    /\ pc = "call" /\ fn = "bond_price"
    /\ Return(bond_price(args.nominal, args.coupon, args.ytm, args.maturity, args.freq),
              None)

\* the caller prices the same bond again, at another yield
Reprice ==
    /\ pc = "done" /\ fn = "bond_price"
    /\ \E ytm \in Yields :
          /\ ytm # args.ytm
          /\ args' = [args EXCEPT !.ytm = ytm]
    /\ prev' = [ytm |-> args.ytm, result |-> result]
    /\ pc' = "call"
    /\ result' = None
    /\ UNCHANGED <<fn, locals>>

BondDuration ==
    /\ pc = "call" /\ fn = "bond_duration"
    /\ Return(bond_duration(args.nominal, args.coupon, args.ytm, args.maturity, args.freq),
              None)

BondConvexity ==
    /\ pc = "call" /\ fn = "bond_convexity"
    /\ Return(bond_convexity(args.nominal, args.coupon, args.ytm, args.maturity, args.freq),
              None)

AdjustedBondPrice ==
    /\ pc = "call" /\ fn = "adjusted_bond_price"
    /\ ReturnWithLocals(adjusted_bond_price(args.nominal, args.coupon, args.ytm,
                            args.maturity, args.freq, args.yield_changes,
                            args.return_yields))

SharpeRatio ==
    /\ pc = "call" /\ fn = "sharpe_ratio"
    /\ Return(sharpe_ratio(args.asset_returns, args.container, args.rfr), None)

Beta ==
    /\ pc = "call" /\ fn = "beta"
    /\ Return(beta(args.index_returns, args.asset_returns), None)

AssetDrawdown ==
    /\ pc = "call" /\ fn = "asset_drawdown"
    /\ ReturnWithLocals(asset_drawdown(args.data, args.plot))

Call(f, inputs) ==
    /\ fn = f
    /\ args \in inputs
    /\ pc = "call"
    /\ result = None
    /\ locals = None
    /\ prev = None

\* bond_price, on every input
InitPrice == Call("bond_price", PriceInputs)

NextPrice == BondPrice

SpecPrice == InitPrice /\ [][NextPrice]_vars

\* bond_price, and again at other yields
InitReprice == Call("bond_price", RepriceInputs)

NextReprice == BondPrice \/ Reprice

SpecReprice == InitReprice /\ [][NextReprice]_vars

\* bond_duration and bond_convexity
InitRisk == Call("bond_duration", RiskInputs) \/ Call("bond_convexity", RiskInputs)

NextRisk == BondDuration \/ BondConvexity

SpecRisk == InitRisk /\ [][NextRisk]_vars

\* adjusted_bond_price
InitProject == Call("adjusted_bond_price", ProjectInputs)

NextProject == AdjustedBondPrice

SpecProject == InitProject /\ [][NextProject]_vars

\* sharpe_ratio, beta and asset_drawdown
InitAsset ==
    \/ Call("sharpe_ratio", SharpeInputs)
    \/ Call("beta", BetaInputs)
    \/ Call("asset_drawdown", DrawdownInputs)

NextAsset == SharpeRatio \/ Beta \/ AssetDrawdown

SpecAsset == InitAsset /\ [][NextAsset]_vars

Init == InitPrice \/ InitRisk \/ InitProject \/ InitAsset

Next ==
    \/ BondPrice
    \/ Reprice
    \/ BondDuration
    \/ BondConvexity
    \/ AdjustedBondPrice
    \/ SharpeRatio
    \/ Beta
    \/ AssetDrawdown

Spec == Init /\ [][Next]_vars

(***************************************************************************)
(* The properties.  A bond is valid when nominal > 0, freq >= 1, the       *)
(* number of periods maturity * freq, as Python computes it, is an int     *)
(* >= 1 (so maturity is an int: a float maturity gives a float product),   *)
(* and 1 + ytm / freq > 0.                                                 *)
(***************************************************************************)

InvalidBondRejected ==
    (/\ pc = "done" /\ fn = "bond_price" /\ args.freq >= 1
     /\ \/ args.maturity.num * args.freq <= 0
        \/ (args.maturity.num * args.freq) % args.maturity.den # 0
        \/ RatLe(RatDiv(args.ytm, RatInt(args.freq)), RatInt(-1)))
    => result = Raise("InvalidBondSpec")

\* C3: for a valid coupon-paying bond and every freq >= 1, the Macaulay duration
\* that bond_duration returns is > 0 and <= maturity.
DurationWithinMaturity ==
    (/\ pc = "done" /\ fn = "bond_duration"
     /\ args.nominal.s > 0 /\ args.coupon.s > 0 /\ args.freq >= 1
     /\ args.maturity.kind = "int" /\ args.maturity.num * args.freq >= 1
     /\ RatLt(RatInt(-1), RatDiv(args.ytm, RatInt(args.freq))))
    => /\ IsValue(result)
       /\ RatLt(RatZero, result.val[1])
       /\ RatLe(result.val[1], RatInt(args.maturity.num))

\* C4: adjusted_bond_price returns, for each yield shift dy of the sweep,
\* (1 - modified_duration * dy + 0.5 * convexity * dy^2) * base_price, with
\* base_price, modified_duration and convexity those of the bond at the freq passed in.
ProjectedAtOwnFrequency ==
    (pc = "done" /\ fn = "adjusted_bond_price")
    => LET f == args.freq
           dy == Rat(1, ConvexityBumpInv)
           priced(y) == bond_price(args.nominal, args.coupon, y, args.maturity, f).val
           base_price == priced(args.ytm)
           convexity == RatDiv(RatSub(RatAdd(priced(RatAdd(args.ytm, dy)),
                                             priced(RatSub(args.ytm, dy))),
                                      RatMul(RatInt(2), base_price)),
                               RatMul(base_price, RatPow(dy, 2)))
           r == RatDiv(args.ytm, RatInt(f))
           weighted == duration_loop(args.nominal,
                           RatDiv(RatMul(args.nominal, args.coupon), RatInt(f)),
                           r, f * args.maturity.num, <<1, RatZero>>)
           macaulay == RatDiv(RatDiv(weighted, base_price), RatInt(f))
           modified == RatDiv(macaulay, RatAdd(RatOne, r))
           sweep == locals.yield_change_range
           prices == IF args.return_yields THEN result.val[1] ELSE result.val
       IN  /\ IsValue(result)
           /\ prices = [k \in 1 .. Len(sweep) |->
                           RatMul(RatAdd(RatSub(RatOne, RatMul(modified, sweep[k])),
                                         RatMul(Rat(1, 2),
                                                RatMul(convexity, RatPow(sweep[k], 2)))),
                                  base_price)]

\* C5 as claimed: with the default range -0.15, 0.15, 0.0001, adjusted_bond_price
\* returns 300 projected prices.
DefaultSweepOf300 ==
    (pc = "done" /\ fn = "adjusted_bond_price"
     /\ args.yield_changes = DefaultYieldChanges /\ ~args.return_yields)
    => IsValue(result) /\ Len(result.val) = 300

\* C5 as amended: with the default range -0.15, 0.15, 0.0001, adjusted_bond_price
\* returns 3000 projected prices.
DefaultSweepOf3000 ==
    (pc = "done" /\ fn = "adjusted_bond_price"
     /\ args.yield_changes = DefaultYieldChanges /\ ~args.return_yields)
    => IsValue(result) /\ Len(result.val) = 3000

\* a bond has been projected over the default range: from -0.15 up to, not
\* including, 0.15
DefaultSweepProjected ==
    /\ pc = "done" /\ fn = "adjusted_bond_price"
    /\ args.yield_changes = DefaultYieldChanges
    /\ IsValue(result)
    /\ Len(locals.yield_change_range) = 3000
    /\ locals.yield_change_range[1] = Rat(-15, 100)
    /\ locals.yield_change_range[3000] = Rat(1499, 10000)

\* C10: when the step of the range has the wrong sign relative to stop - start,
\* adjusted_bond_price returns an empty sequence of prices and raises no error.
WrongSignStepGivesNoPrices ==
    (/\ pc = "done" /\ fn = "adjusted_bond_price"
     /\ RatSub(args.yield_changes[2], args.yield_changes[1]).s
            * args.yield_changes[3].s < 0)
    => /\ IsValue(result)
       /\ (IF args.return_yields THEN result.val[1] ELSE result.val) = <<>>

\* start=0.15, stop=-0.15, step=0.0001 has been projected, to no prices
WrongSignStepProjected ==
    /\ pc = "done" /\ fn = "adjusted_bond_price"
    /\ args.yield_changes = <<Rat(15, 100), Rat(-15, 100), Rat(1, 10000)>>
    /\ ~args.return_yields
    /\ result = Value(<<>>)

\* C7: sharpe_ratio fails with ComputationError, rather than returning NaN or an
\* infinity, when the standard deviation of the excess returns is 0 or the
\* series has fewer than 2 observations.
DegenerateSharpeRejected ==
    (/\ pc = "done" /\ fn = "sharpe_ratio"
     /\ \/ Len(args.asset_returns) < 2
        \/ \A i \in 1 .. Len(args.asset_returns) :
               args.asset_returns[i] = args.asset_returns[1])
    => result = Raise("ComputationError")

\* C8: beta is covariance / variance under one normalisation: for every series x
\* of length >= 2 and non-zero variance, beta(x, x) = 1 and beta(x, c * x) = c.
BetaOfScaledIndex ==
    (/\ pc = "done" /\ fn = "beta"
     /\ Len(args.index_returns) >= 2
     /\ \E i \in 1 .. Len(args.index_returns) :
            args.index_returns[i] # args.index_returns[1])
    => \A c \in Factors :
           args.asset_returns = Scale(c, args.index_returns) => result = Value(c)

\* C9: for a non-empty series of positive prices and every row i, rolling_max[i]
\* is the largest price of the window of rows ending at i (every row so far while
\* there are fewer), daily_drawdown[i] = price[i] / rolling_max[i] - 1, and
\* max_daily_drawdown[i] is the least daily_drawdown of the same rows; both
\* series returned have the length of the input; and the prices 100, 90, 95, 80,
\* 120 give the daily drawdowns 0, -0.10, -0.05, -0.20, 0.
DrawdownOverTrailingWindow ==
    (pc = "done" /\ fn = "asset_drawdown" /\ Len(args.data) > 0)
    => LET n == Len(args.data)
           first(i) == IF i - window + 1 > 1 THEN i - window + 1 ELSE 1
           IsMaxOver(x, xs, i) ==
               /\ \E p \in first(i) .. i : x = xs[p]
               /\ \A p \in first(i) .. i : RatLe(xs[p], x)
           IsMinOver(x, xs, i) ==
               /\ \E p \in first(i) .. i : x = xs[p]
               /\ \A p \in first(i) .. i : RatLe(x, xs[p])
       IN  /\ Len(locals.daily_drawdown) = n
           /\ Len(locals.max_daily_drawdown) = n
           /\ \A i \in 1 .. n :
                 /\ IsMaxOver(locals.rolling_max[i], args.data, i)
                 /\ RatAdd(locals.daily_drawdown[i], RatOne)
                        = RatDiv(args.data[i], locals.rolling_max[i])
                 /\ IsMinOver(locals.max_daily_drawdown[i], locals.daily_drawdown, i)
           /\ ~args.plot =>
                 result = Value(<<locals.daily_drawdown, locals.max_daily_drawdown>>)
           /\ args.data = DrawdownScenario =>
                 locals.daily_drawdown
                     = <<RatZero, Rat(-10, 100), Rat(-5, 100), Rat(-20, 100), RatZero>>

\* the drawdowns of the prices 100, 90, 95, 80, 120 have been returned
DrawdownScenarioReturned ==
    /\ pc = "done" /\ fn = "asset_drawdown"
    /\ args.data = DrawdownScenario /\ ~args.plot
    /\ result.val[1] = <<RatZero, Rat(-1, 10), Rat(-1, 20), Rat(-1, 5), RatZero>>
    /\ result.val[2] = <<RatZero, Rat(-1, 10), Rat(-1, 10), Rat(-1, 5), Rat(-1, 5)>>

====
